---- MODULE Spec2Model ----
(***************************************************************************)
(* The kma-weather scripts: the KMA grid coordinate converter              *)
(* (grid_converter.py), the release times of forecast.py and midterm.py,   *)
(* and the paged requests of forecast.py over kma_api.py.                  *)
(*                                                                         *)
(* latlon_to_grid and grid_to_latlon are modelled statement by statement   *)
(* over a model of Python's float: a binary floating-point number with a   *)
(* MantBits-bit mantissa, round-to-nearest-even, the IEEE special values   *)
(* nan and +-inf, and the exceptions the interpreter raises (float         *)
(* division by zero, math domain errors, int() of nan or inf).  The        *)
(* exponent is unbounded and zero is unsigned.                             *)
(*                                                                         *)
(* A value that a statement computes once and later statements read is a   *)
(* parameter of the operator that models those later statements.           *)
(***************************************************************************)
EXTENDS Integers, FiniteSets, Sequences, TLC

VARIABLES pc, call, fwd, inv, now, stamp, environ, job, sent, got

vars == <<pc, call, fwd, inv, now, stamp, environ, job, sent, got>>

(***************************************************************************)
(* Python float.                                                           *)
(* A value is [k, m, e]:                                                   *)
(*   k = "fin": the number m * 2^e, m = 0 or 2^(MantBits-1) <= |m| < 2^MantBits *)
(*   k = "nan"; k = "inf" with sign m;                                     *)
(*   any other k: the name of the exception raised while computing it.     *)
(***************************************************************************)
MantBits == 16

F(k, m, e) == [k |-> k, m |-> m, e |-> e]

Zero == F("fin", 0, 0)

NaN == F("nan", 0, 0)

Inf(s) == F("inf", s, 0)

Raise(name) == F(name, 0, 0)

IsExc(x) == x.k \notin {"fin", "nan", "inf"}

IsFin(x) == x.k = "fin"

Sgn(n) == IF n > 0 THEN 1 ELSE IF n < 0 THEN -1 ELSE 0

Abs(n) == IF n < 0 THEN -n ELSE n

RECURSIVE BitLen(_)
BitLen(n) == IF n = 0 THEN 0 ELSE 1 + BitLen(n \div 2)

\* n >= 0 shifted right by s bits, ties to even (left when s <= 0)
RoundShift(n, s) ==
  IF s <= 0 THEN n * 2^(-s)
  ELSE LET q == n \div 2^s
           r == n % 2^s
           h == 2^(s - 1)
       IN  IF r > h \/ (r = h /\ q % 2 = 1) THEN q + 1 ELSE q

\* the float sg * q * 2^e, for a rounded mantissa 2^(MantBits-1) <= q <= 2^MantBits
Pack(sg, q, e) ==
  IF q = 2^MantBits THEN F("fin", sg * 2^(MantBits - 1), e + 1)
  ELSE F("fin", sg * q, e)

\* the float nearest to sg * n * 2^e, n >= 0
Norm(sg, n, e) ==
  IF n = 0 THEN Zero
  ELSE Pack(sg, RoundShift(n, BitLen(n) - MantBits), e + BitLen(n) - MantBits)

\* the float nearest to s * 2^e
NormSigned(s, e) == Norm(Sgn(s), Abs(s), e)

FromInt(n) == NormSigned(n, 0)

\* twice the quotient B / p, with the last bit set when the division is inexact
Sticky(B, p) == 2 * (B \div p) + (IF B % p # 0 THEN 1 ELSE 0)

\* m1 * 2^29 / m2 with a sticky bit, by long division in two 14-bit steps
DivMant(m1, m2) ==
  2 * (((m1 * 2^14) \div m2) * 2^14) + Sticky(((m1 * 2^14) % m2) * 2^14, m2)

\* a / b correctly rounded, for finite a and finite b # 0
DivFin(a, b) ==
  IF a.m = 0 THEN Zero
  ELSE Norm(Sgn(a.m) * Sgn(b.m), DivMant(Abs(a.m), Abs(b.m)), a.e - b.e - 29)

\* m1 * m2 / 2^7 with a sticky bit, m2 = 256 * h + l
MulMant(m1, h, l) == 2 * (m1 * h) + Sticky(m1 * l, 256)

\* a * b correctly rounded, for finite a, b
MulFin(a, b) ==
  IF a.m = 0 \/ b.m = 0 THEN Zero
  ELSE Norm(Sgn(a.m) * Sgn(b.m),
            MulMant(Abs(a.m), Abs(b.m) \div 256, Abs(b.m) % 256),
            a.e + b.e + 7)

\* the sum of the mantissas am (exponent larger by d) and bm, in units of the
\* smaller exponent when d <= 14 and of 1/16 of the larger one otherwise
AddMant(am, bm, d) ==
  IF d <= 14 THEN am * 2^d + bm
  ELSE am * 16 + Sgn(bm) * Sticky(Abs(bm) * 8, 2^d)

\* a + b for a.e >= b.e
AddOrdered(a, b) ==
  IF a.e - b.e > MantBits + 2 THEN a
  ELSE NormSigned(AddMant(a.m, b.m, a.e - b.e),
                  IF a.e - b.e <= 14 THEN b.e ELSE a.e - 4)

AddFin(a, b) ==
  IF a.m = 0 THEN b
  ELSE IF b.m = 0 THEN a
  ELSE AddOrdered(IF a.e >= b.e THEN a ELSE b, IF a.e >= b.e THEN b ELSE a)

FNeg(x) == IF x.k \in {"fin", "inf"} THEN F(x.k, -x.m, x.e) ELSE x

\* finite x > 0 with the sign s
Signed(s, x) == F("fin", s * x.m, x.e)

FAbs(x) == IF x.k \in {"fin", "inf"} THEN F(x.k, Abs(x.m), x.e) ELSE x

FAdd(a, b) ==
  IF IsExc(a) THEN a
  ELSE IF IsExc(b) THEN b
  ELSE IF a.k = "nan" \/ b.k = "nan" THEN NaN
  ELSE IF a.k = "inf" THEN (IF b.k = "inf" /\ b.m # a.m THEN NaN ELSE a)
  ELSE IF b.k = "inf" THEN b
  ELSE AddFin(a, b)

FSub(a, b) == FAdd(a, FNeg(b))

FMul(a, b) ==
  IF IsExc(a) THEN a
  ELSE IF IsExc(b) THEN b
  ELSE IF a.k = "nan" \/ b.k = "nan" THEN NaN
  ELSE IF a.k = "inf" \/ b.k = "inf"
       THEN (IF Sgn(a.m) * Sgn(b.m) = 0 THEN NaN ELSE Inf(Sgn(a.m) * Sgn(b.m)))
  ELSE MulFin(a, b)

\* float / float: a zero divisor raises ZeroDivisionError
FDiv(a, b) ==
  IF IsExc(a) THEN a
  ELSE IF IsExc(b) THEN b
  ELSE IF b.k = "fin" /\ b.m = 0 THEN Raise("ZeroDivisionError")
  ELSE IF a.k = "nan" \/ b.k = "nan" THEN NaN
  ELSE IF a.k = "inf" THEN (IF b.k = "inf" THEN NaN ELSE Inf(a.m * Sgn(b.m)))
  ELSE IF b.k = "inf" THEN Zero
  ELSE DivFin(a, b)

\* sign of a - b, for a, b finite or infinite
Cmp(a, b) ==
  IF a.k = "inf" THEN (IF b.k = "inf" /\ b.m = a.m THEN 0 ELSE a.m)
  ELSE IF b.k = "inf" THEN -b.m
  ELSE Sgn(AddFin(a, FNeg(b)).m)

\* comparisons with nan are false
FLt(a, b) == a.k # "nan" /\ b.k # "nan" /\ Cmp(a, b) < 0

FGt(a, b) == FLt(b, a)

FLe(a, b) == a.k # "nan" /\ b.k # "nan" /\ Cmp(a, b) <= 0

FGe(a, b) == FLe(b, a)

\* the float nearest to the fraction n / d, 0 <= n, 0 < d, both < 2^MantBits
Dec(n, d) == DivFin(FromInt(n), FromInt(d))

\* the literals 1.0, 2.0, 0.5 and 0.25
One == F("fin", 2^(MantBits - 1), -(MantBits - 1))

Two == F("fin", 2^(MantBits - 1), -(MantBits - 2))

Half == F("fin", 2^(MantBits - 1), -MantBits)

Quarter == F("fin", 2^(MantBits - 1), -(MantBits + 1))

\* finite x truncated toward zero
Trunc(x) ==
  IF x.e >= 0 THEN x.m * 2^(x.e)
  ELSE IF -x.e > MantBits THEN 0
  ELSE Sgn(x.m) * (Abs(x.m) \div 2^(-x.e))

\* finite x rounded toward minus infinity
Floor(x) ==
  IF x.e >= 0 THEN x.m * 2^(x.e)
  ELSE IF -x.e > MantBits THEN (IF x.m < 0 THEN -1 ELSE 0)
  ELSE x.m \div 2^(-x.e)

\* the value a statement assigns when it runs after the statement that
\* computed prev: nothing is assigned once prev has raised
After(prev, v) == IF IsExc(prev) THEN prev ELSE v

\* int(x): truncates; nan raises ValueError, inf raises OverflowError
PyInt(x) ==
  IF IsExc(x) THEN [exc |-> x.k, v |-> 0]
  ELSE IF x.k = "nan" THEN [exc |-> "ValueError", v |-> 0]
  ELSE IF x.k = "inf" THEN [exc |-> "OverflowError", v |-> 0]
  ELSE [exc |-> "none", v |-> Trunc(x)]

(***************************************************************************)
(* Python's math module on that float.  Each function is evaluated by      *)
(* argument reduction and a power series in float arithmetic, so it is     *)
(* accurate to a few units in the last place of the mantissa.              *)
(***************************************************************************)
\* math.pi = 3.1416015625
math_pi == F("fin", 51472, -14)

\* log(2) = 0.693145751953125
Ln2 == F("fin", 45426, -16)

\* tan(pi / 8) = 0.414215087890625
TanPi8 == F("fin", 54292, -17)

\* the largest finite float (exponent of an IEEE double)
MaxFloat == F("fin", 2^MantBits - 1, 1024 - MantBits)

HalfPi == MulFin(math_pi, Half)

\* acc + term - term r^2/((n+1)(n+2)) + ..., the terms of order n to N of the
\* sine (n odd) or cosine (n even) series of r, term being the one of order n
RECURSIVE SinSeries(_, _, _, _, _)
SinSeries(r, term, n, acc, N) ==
  IF n > N THEN acc
  ELSE SinSeries(r,
                 FNeg(DivFin(MulFin(MulFin(term, r), r), FromInt((n + 1) * (n + 2)))),
                 n + 2, AddFin(acc, term), N)

\* the multiple of pi/2 nearest to x
Quadrant(x) == Floor(AddFin(DivFin(x, HalfPi), Half))

\* x - q pi/2
Reduce(x, q) == AddFin(x, FNeg(MulFin(FromInt(q), HalfPi)))

\* sin(r + k pi/2) for |r| <= pi/4 and k in 0..3: sin r, cos r, -sin r, -cos r
SinShifted(r, k) ==
  Signed(IF k >= 2 THEN -1 ELSE 1,
         SinSeries(r, IF k % 2 = 0 THEN r ELSE One, (k + 1) % 2, Zero,
                   IF k % 2 = 0 THEN 11 ELSE 12))

\* sin(x + shift pi/2), q being the quadrant of x
SinQuadrant(x, q, shift) == SinShifted(Reduce(x, q), (q + shift) % 4)

SinFin(x) == SinQuadrant(x, Quadrant(x), 0)

CosFin(x) == SinQuadrant(x, Quadrant(x), 1)

\* math.sin, math.cos, math.tan: nan for nan, ValueError for +-inf
math_sin(x) ==
  IF IsExc(x) THEN x
  ELSE IF x.k = "nan" THEN NaN
  ELSE IF x.k = "inf" THEN Raise("ValueError")
  ELSE SinFin(x)

math_cos(x) ==
  IF IsExc(x) THEN x
  ELSE IF x.k = "nan" THEN NaN
  ELSE IF x.k = "inf" THEN Raise("ValueError")
  ELSE CosFin(x)

\* sine / cosine; where the cosine is zero, the largest float with the
\* sign of the sine
TanFin(s, c) == IF c.m = 0 THEN Signed(Sgn(s.m), MaxFloat) ELSE DivFin(s, c)

\* math.tan is finite for every finite argument: at the float nearest to
\* pi/2 it is a huge number, never a division by zero
math_tan(x) ==
  IF IsExc(x) THEN x
  ELSE IF x.k = "nan" THEN NaN
  ELSE IF x.k = "inf" THEN Raise("ValueError")
  ELSE TanFin(SinFin(x), CosFin(x))

\* acc + term/n + term z2/(n+2) + ... up to order N, term = z^n, z2 = z^2
RECURSIVE AtanhSeries(_, _, _, _, _)
AtanhSeries(z2, term, n, acc, N) ==
  IF n > N THEN acc
  ELSE AtanhSeries(z2, MulFin(term, z2), n + 2,
                   AddFin(acc, DivFin(term, FromInt(n))), N)

\* atanh(z) for |z| <= 1/5
Atanh(z) == AtanhSeries(MulFin(z, z), z, 1, Zero, 11)

\* log(f * 2^k) for 3/4 < f <= 3/2: log f = 2 atanh((f-1)/(f+1))
LogScaled(f, k) ==
  AddFin(MulFin(FromInt(k), Ln2),
         MulFin(Two, Atanh(DivFin(AddFin(f, FNeg(One)), AddFin(f, One)))))

\* the mantissa of x, scaled into [1, 2), is above 3/2
AboveThreeHalves(x) == Abs(x.m) > 3 * 2^(MantBits - 2)

\* log of finite x > 0: x = f * 2^k with 3/4 < f <= 3/2
LogFin(x) ==
  LogScaled(F("fin", x.m, IF AboveThreeHalves(x) THEN -MantBits ELSE -(MantBits - 1)),
            IF AboveThreeHalves(x) THEN x.e + MantBits ELSE x.e + MantBits - 1)

\* math.log: ValueError for x <= 0
math_log(x) ==
  IF IsExc(x) THEN x
  ELSE IF x.k = "nan" THEN NaN
  ELSE IF x.k = "inf" THEN (IF x.m > 0 THEN x ELSE Raise("ValueError"))
  ELSE IF x.m <= 0 THEN Raise("ValueError")
  ELSE LogFin(x)

\* acc + term + term r/(n+1) + ... up to order N, term = r^n/n!
RECURSIVE ExpSeries(_, _, _, _, _)
ExpSeries(r, term, n, acc, N) ==
  IF n > N THEN acc
  ELSE ExpSeries(r, DivFin(MulFin(term, r), FromInt(n + 1)), n + 1,
                 AddFin(acc, term), N)

\* finite v times 2^k
Ldexp(v, k) == F("fin", v.m, v.e + k)

\* 2^k exp(x - k log 2)
ExpScaled(x, k) ==
  Ldexp(ExpSeries(AddFin(x, FNeg(MulFin(FromInt(k), Ln2))), One, 0, Zero, 8), k)

\* exp of finite x: x = k log 2 + r with |r| <= log(2)/2, exp x = 2^k exp r
ExpFin(x) == ExpScaled(x, Floor(AddFin(DivFin(x, Ln2), Half)))

\* math.pow(x, y) for the exponents the converter uses (sn and 1/sn: finite,
\* not an integer): a negative base raises ValueError, and so does a zero
\* base with a negative exponent
math_pow(x, y) ==
  IF IsExc(x) THEN x
  ELSE IF IsExc(y) THEN y
  ELSE IF x.k = "nan" \/ y.k = "nan" THEN NaN
  ELSE IF x.k = "inf" THEN (IF y.m > 0 THEN Inf(1) ELSE Zero)
  ELSE IF x.m = 0 THEN (IF y.m > 0 THEN Zero ELSE Raise("ValueError"))
  ELSE IF x.m < 0 THEN Raise("ValueError")
  ELSE ExpFin(MulFin(y, LogFin(x)))

\* n Newton steps y <- (y + x/y) / 2
RECURSIVE SqrtIter(_, _, _)
SqrtIter(x, y, n) ==
  IF n = 0 THEN y ELSE SqrtIter(x, MulFin(Half, AddFin(y, DivFin(x, y))), n - 1)

SqrtFin(x) ==
  SqrtIter(x, F("fin", 2^(MantBits - 1), ((x.e + MantBits - 1) \div 2) - (MantBits - 1)), 6)

\* math.sqrt: ValueError for x < 0
math_sqrt(x) ==
  IF IsExc(x) THEN x
  ELSE IF x.k = "nan" THEN NaN
  ELSE IF x.k = "inf" THEN (IF x.m > 0 THEN x ELSE Raise("ValueError"))
  ELSE IF x.m < 0 THEN Raise("ValueError")
  ELSE IF x.m = 0 THEN Zero
  ELSE SqrtFin(x)

\* acc + term/n - term z2/(n+2) + ... up to order N, term = +-z^n, z2 = z^2
RECURSIVE AtanSeries(_, _, _, _, _)
AtanSeries(z2, term, n, acc, N) ==
  IF n > N THEN acc
  ELSE AtanSeries(z2, FNeg(MulFin(term, z2)), n + 2,
                  AddFin(acc, DivFin(term, FromInt(n))), N)

AtanSmall(z) == AtanSeries(MulFin(z, z), z, 1, Zero, 17)

\* atan of finite x >= 0
RECURSIVE AtanPos(_)
AtanPos(x) ==
  IF Cmp(x, One) > 0 THEN AddFin(HalfPi, FNeg(AtanPos(DivFin(One, x))))
  ELSE IF Cmp(x, TanPi8) > 0
       THEN AddFin(MulFin(math_pi, Quarter),
                   AtanSmall(DivFin(AddFin(x, FNeg(One)), AddFin(x, One))))
  ELSE AtanSmall(x)

AtanFin(x) == Signed(IF x.m < 0 THEN -1 ELSE 1, AtanPos(FAbs(x)))

\* math.atan: atan(+-inf) = +-pi/2
math_atan(x) ==
  IF IsExc(x) THEN x
  ELSE IF x.k = "nan" THEN NaN
  ELSE IF x.k = "inf" THEN Signed(x.m, HalfPi)
  ELSE AtanFin(x)

\* math.atan2(y, x): the angle of the point (x, y), in [-pi, pi]
math_atan2(y, x) ==
  IF IsExc(y) THEN y
  ELSE IF IsExc(x) THEN x
  ELSE IF y.k = "nan" \/ x.k = "nan" THEN NaN
  ELSE IF y.k = "inf" /\ x.k = "inf"
       THEN Signed(y.m, MulFin(math_pi, IF x.m > 0 THEN Quarter ELSE Dec(3, 4)))
  ELSE IF y.k = "inf" THEN Signed(y.m, HalfPi)
  ELSE IF x.k = "inf"
       THEN (IF x.m > 0 THEN Zero ELSE IF y.m >= 0 THEN math_pi ELSE FNeg(math_pi))
  ELSE IF x.m = 0
       THEN (IF y.m = 0 THEN Zero ELSE Signed(Sgn(y.m), HalfPi))
  ELSE AddFin(AtanFin(DivFin(y, x)),
              IF x.m > 0 THEN Zero ELSE IF y.m >= 0 THEN math_pi ELSE FNeg(math_pi))

(***************************************************************************)
(* grid_converter.py: Lambert Conformal Conic projection constants.        *)
(***************************************************************************)
\* 6371.00877 (the nearest float is 6371.0)
EARTH_RADIUS_KM == F("fin", 50968, -3)

GRID_SPACING_KM == FromInt(5)

PROJ_LAT_1 == FromInt(30)

PROJ_LAT_2 == FromInt(60)

REF_LON == FromInt(126)

REF_LAT == FromInt(38)

REF_X == FromInt(43)

REF_Y == FromInt(136)

DEGREE_TO_RADIAN == FDiv(math_pi, FromInt(180))

GRID_UNIT_COUNT == FDiv(EARTH_RADIUS_KM, GRID_SPACING_KM)

(***************************************************************************)
(* The projection parameters, recomputed by both functions from the same   *)
(* constants with the same expressions.                                    *)
(***************************************************************************)
proj_lat_1_rad == FMul(PROJ_LAT_1, DEGREE_TO_RADIAN)

proj_lat_2_rad == FMul(PROJ_LAT_2, DEGREE_TO_RADIAN)

ref_lon_rad == FMul(REF_LON, DEGREE_TO_RADIAN)

ref_lat_rad == FMul(REF_LAT, DEGREE_TO_RADIAN)

\* math.tan(math.pi * 0.25 + phi * 0.5)
tan_quarter(phi) == math_tan(FAdd(FMul(math_pi, Quarter), FMul(phi, Half)))

sn ==
  FDiv(math_log(FDiv(math_cos(proj_lat_1_rad), math_cos(proj_lat_2_rad))),
       math_log(FDiv(tan_quarter(proj_lat_2_rad), tan_quarter(proj_lat_1_rad))))

sf == FDiv(FMul(math_pow(tan_quarter(proj_lat_1_rad), sn), math_cos(proj_lat_1_rad)), sn)

ro == FDiv(FMul(GRID_UNIT_COUNT, sf), math_pow(tan_quarter(ref_lat_rad), sn))

(***************************************************************************)
(* latlon_to_grid(lat, lon)                                                *)
(***************************************************************************)
\* distance = GRID_UNIT_COUNT * sf / math.pow(math.tan(...lat_rad...), sn)
conic_distance(lat_rad) ==
  FDiv(FMul(GRID_UNIT_COUNT, sf), math_pow(tan_quarter(lat_rad), sn))

\* if theta_rad > math.pi: theta_rad -= 2.0 * math.pi
wrap_down(theta_rad) ==
  IF FGt(theta_rad, math_pi) THEN FSub(theta_rad, FMul(Two, math_pi)) ELSE theta_rad

wrap_up_missing(theta_rad) == theta_rad

\* if theta_rad < -math.pi: theta_rad += 2.0 * math.pi
wrap_up(theta_rad) ==
  IF FLt(theta_rad, FNeg(math_pi)) THEN FAdd(theta_rad, FMul(Two, math_pi)) ELSE theta_rad

scale_theta_divided(theta_rad) == FDiv(theta_rad, sn)

\* theta_rad *= sn
scale_theta(theta_rad) == FMul(theta_rad, sn)

grid_index_truncated(v) == PyInt(v)

\* int(v + 0.5)
grid_index(v) == PyInt(FAdd(v, Half))

\* The call's local variables and its outcome: raised = "none" when it
\* returns (nx, ny), else the exception it raises.  delta, wrapped1 and
\* wrapped2 are theta_rad after lines 66, 70 and 72, theta after line 74;
\* x and y are the grid positions before int(. + 0.5), cx and cy the
\* outcomes of the two int(. + 0.5).
grid_cell(distance, delta, theta, x, y, cx, cy) ==
  [distance |-> distance, delta |-> delta, wrapped1 |-> wrap_down(delta),
   wrapped2 |-> wrap_up(wrap_down(delta)), theta |-> theta, x |-> x, y |-> y,
   nx |-> cx.v, ny |-> cy.v,
   raised |-> IF IsExc(distance) THEN distance.k
              ELSE IF cx.exc # "none" THEN cx.exc
              ELSE cy.exc]

\* lines 77-78: nx = int(x + 0.5), ny = int(y + 0.5)
grid_round(distance, delta, theta, x, y) ==
  grid_cell(distance, delta, theta, x, y, grid_index(x), grid_index(y))

\* lines 77-78: x = distance * sin(theta_rad) + REF_X,
\* y = ro - distance * cos(theta_rad) + REF_Y
grid_position(distance, delta, theta) ==
  grid_round(distance, delta, theta,
             FAdd(FMul(distance, math_sin(theta)), REF_X),
             FAdd(FSub(ro, FMul(distance, math_cos(theta))), REF_Y))

\* lines 69-74: theta_rad normalised and scaled by sn
grid_angle(distance, delta) ==
  grid_position(distance, delta, scale_theta(wrap_up(wrap_down(delta))))

\* lines 65-66: distance, then theta_rad = lon_rad - ref_lon_rad
grid_polar(distance, lon_rad) ==
  grid_angle(distance, After(distance, FSub(lon_rad, ref_lon_rad)))

latlon_to_grid(lat, lon) ==
  grid_polar(conic_distance(FMul(lat, DEGREE_TO_RADIAN)), FMul(lon, DEGREE_TO_RADIAN))

(***************************************************************************)
(* grid_to_latlon(nx, ny)                                                  *)
(***************************************************************************)
\* if sn < 0.0: distance = -distance
signed_distance(distance) == IF FLt(sn, Zero) THEN FNeg(distance) ELSE distance

\* distance = math.sqrt(diff_x * diff_x + diff_y * diff_y), negated if sn < 0
inverse_distance(diff_x, diff_y) ==
  signed_distance(math_sqrt(FAdd(FMul(diff_x, diff_x), FMul(diff_y, diff_y))))

\* lat_rad = 2.0 * math.atan(math.pow(GRID_UNIT_COUNT * sf / distance, 1.0 / sn)) - math.pi * 0.5
inverse_lat_rad(distance) ==
  FSub(FMul(Two, math_atan(math_pow(FDiv(FMul(GRID_UNIT_COUNT, sf), distance),
                                    FDiv(One, sn)))),
       FMul(math_pi, Half))

inverse_theta_swapped(diff_x, diff_y) ==
  IF FLe(FAbs(diff_x), Zero) THEN Zero
  ELSE IF FLe(FAbs(diff_y), Zero)
       THEN (IF FGe(diff_x, Zero) THEN FMul(math_pi, Half) ELSE FMul(FNeg(math_pi), Half))
  ELSE math_atan2(diff_y, diff_x)

\* the if / else of lines 127-133
inverse_theta(diff_x, diff_y) ==
  IF FLe(FAbs(diff_x), Zero) THEN Zero
  ELSE IF FLe(FAbs(diff_y), Zero)
       THEN (IF FGe(diff_x, Zero) THEN FMul(math_pi, Half) ELSE FMul(FNeg(math_pi), Half))
  ELSE math_atan2(diff_x, diff_y)

\* The call's local variables and its outcome.  Only line 124 can raise;
\* lines 127-139 run when it does not.
latlon_degrees(diff_x, diff_y, distance, lat_rad, theta) ==
  [diff_x |-> diff_x, diff_y |-> diff_y, distance |-> distance,
   theta |-> theta,
   lat |-> FDiv(lat_rad, DEGREE_TO_RADIAN),
   lon |-> FDiv(FAdd(FDiv(theta, sn), ref_lon_rad), DEGREE_TO_RADIAN),
   raised |-> IF IsExc(lat_rad) THEN lat_rad.k ELSE "none"]

\* lines 127-133: theta_rad, when line 124 has not raised
latlon_angle(diff_x, diff_y, distance, lat_rad) ==
  latlon_degrees(diff_x, diff_y, distance, lat_rad,
                 After(lat_rad, inverse_theta(diff_x, diff_y)))

\* line 124: lat_rad
latlon_latitude(diff_x, diff_y, distance) ==
  latlon_angle(diff_x, diff_y, distance, inverse_lat_rad(distance))

\* lines 118-121: distance
latlon_polar(diff_x, diff_y) ==
  latlon_latitude(diff_x, diff_y, inverse_distance(diff_x, diff_y))

\* lines 113-114: diff_x = nx - REF_X, diff_y = ro - ny + REF_Y
grid_to_latlon(nx, ny) == latlon_polar(FSub(nx, REF_X), FAdd(FSub(ro, ny), REF_Y))

(***************************************************************************)
(* Python str and datetime, as forecast.py and midterm.py use them.        *)
(* A str is the sequence of its characters; a datetime is the record       *)
(* [y, mo, d, h, mi] of a naive local time.                                *)
(***************************************************************************)
DigitChars == <<"0", "1", "2", "3", "4", "5", "6", "7", "8", "9">>

\* str(n) for an int
RECURSIVE Str(_)
Str(n) ==
  IF n < 0 THEN <<"-">> \o Str(-n)
  ELSE IF n < 10 THEN <<DigitChars[n + 1]>>
  ELSE Str(n \div 10) \o <<DigitChars[(n % 10) + 1]>>

\* n >= 0 zero-padded to at least w digits (%H, %d, %m, %Y, {n:02d})
RECURSIVE Padded(_, _)
Padded(n, w) ==
  IF w <= 1 THEN Str(n)
  ELSE IF n < 10 ^ (w - 1) THEN <<"0">> \o Padded(n, w - 1)
  ELSE Str(n)

\* the value of the digit string s after the digits read so far gave acc
RECURSIVE DigitsValue(_, _)
DigitsValue(s, acc) ==
  IF s = <<>> THEN acc
  ELSE DigitsValue(Tail(s), 10 * acc + (CHOOSE v \in 0..9 : DigitChars[v + 1] = Head(s)))

IsDigits(s) == s # <<>> /\ \A i \in 1..Len(s) : \E v \in 0..9 : DigitChars[v + 1] = s[i]

\* int(s) of a str: [exc, v]; anything but an optionally signed digit string
\* raises ValueError
IntOfStr(s) ==
  IF IsDigits(s) THEN [exc |-> "none", v |-> DigitsValue(s, 0)]
  ELSE IF s # <<>> /\ Head(s) = "-" /\ IsDigits(Tail(s))
       THEN [exc |-> "none", v |-> -DigitsValue(Tail(s), 0)]
  ELSE [exc |-> "ValueError", v |-> 0]

DaysInMonth(y, mo) ==
  IF mo = 2 THEN (IF y % 4 = 0 /\ (y % 100 # 0 \/ y % 400 = 0) THEN 29 ELSE 28)
  ELSE IF mo \in {4, 6, 9, 11} THEN 30
  ELSE 31

\* t - timedelta(days=1)
MinusDay(t) ==
  IF t.d > 1 THEN [t EXCEPT !.d = t.d - 1]
  ELSE IF t.mo > 1 THEN [t EXCEPT !.mo = t.mo - 1, !.d = DaysInMonth(t.y, t.mo - 1)]
  ELSE [t EXCEPT !.y = t.y - 1, !.mo = 12, !.d = 31]

MinusHour_SameDay(t) == [t EXCEPT !.h = (t.h + 23) % 24]

\* t - timedelta(hours=1)
MinusHour(t) ==
  IF t.h > 0 THEN [t EXCEPT !.h = t.h - 1] ELSE [MinusDay(t) EXCEPT !.h = 23]

\* t.strftime("%Y%m%d")
strftime_Ymd(t) == Padded(t.y, 4) \o Padded(t.mo, 2) \o Padded(t.d, 2)

(***************************************************************************)
(* forecast.py: get_base_time(forecast_type), reading the clock `t`.       *)
(* The result is [base_date, base_time, raised].                           *)
(***************************************************************************)
Unbound == <<"?">>

\* line 105: return base_date, base_time
BaseTime(base_date, base_time) ==
  [base_date |-> base_date, base_time |-> base_time,
   raised |-> IF base_time = Unbound THEN "UnboundLocalError" ELSE "none"]

\* lines 64-65, 73-74: if now.minute < release: now = now - timedelta(hours=1)
before_release(t, release) == IF t.mi < release THEN MinusHour(t) ELSE t

\* line 81
base_times ==
  << <<"0", "2", "0", "0">>, <<"0", "5", "0", "0">>, <<"0", "8", "0", "0">>,
     <<"1", "1", "0", "0">>, <<"1", "4", "0", "0">>, <<"1", "7", "0", "0">>,
     <<"2", "0", "0", "0">>, <<"2", "3", "0", "0">> >>

released_ignoring_minutes(i, current_hour, current_minute) ==
  current_hour >= IntOfStr(SubSeq(base_times[i], 1, 2)).v

\* lines 95-96, with bt_hour = int(base_times[i][:2]) and i counted from 1
released(i, current_hour, current_minute) ==
  \/ current_hour > IntOfStr(SubSeq(base_times[i], 1, 2)).v
  \/ (current_hour = IntOfStr(SubSeq(base_times[i], 1, 2)).v /\ current_minute >= 10)

\* lines 94-98: the loop from index i down; base_time stays unbound when no
\* base time matches
RECURSIVE latest_base_time(_, _, _)
latest_base_time(i, current_hour, current_minute) ==
  IF i < 1 THEN Unbound
  ELSE IF released(i, current_hour, current_minute) THEN base_times[i]
  ELSE latest_base_time(i - 1, current_hour, current_minute)

\* lines 59-105
get_base_time(forecast_type, t) ==
  IF forecast_type = "current"
  THEN BaseTime(strftime_Ymd(before_release(t, 40)),
                Padded(before_release(t, 40).h, 2) \o <<"0", "0">>)
  ELSE IF forecast_type = "ultrashort"
       THEN BaseTime(strftime_Ymd(before_release(t, 45)),
                     Padded(before_release(t, 45).h, 2) \o <<"3", "0">>)
  ELSE IF forecast_type = "shortterm"
       THEN IF t.h < 2 \/ (t.h = 2 /\ t.mi < 10)
            THEN BaseTime(strftime_Ymd(MinusDay(t)), <<"2", "3", "0", "0">>)
            ELSE BaseTime(strftime_Ymd(t), latest_base_time(Len(base_times), t.h, t.mi))
  ELSE [base_date |-> Unbound, base_time |-> Unbound, raised |-> "ValueError"]

(***************************************************************************)
(* midterm.py: get_midterm_time(), reading the clock `t`.                  *)
(***************************************************************************)
release_hour_always_18(t) == 18

\* lines 74-85: release_hour
release_hour(t) == IF t.h < 6 THEN 18 ELSE IF t.h < 18 THEN 6 ELSE 18

\* lines 74-87: release_time.strftime(f"%Y%m%d{release_hour:02d}00")
get_midterm_time(t) ==
  strftime_Ymd(IF t.h < 6 THEN MinusDay(t) ELSE t) \o Padded(release_hour(t), 2) \o <<"0", "0">>

(***************************************************************************)
(* kma_api.py.  An optional str is [set, v]: None is unset.  The parsed    *)
(* JSON document of a response is the record of what the callers read in   *)
(* it: whether it has "response", the header's resultCode, whether it has  *)
(* "body", the body's totalCount, and body.items.item, which is a list     *)
(* (items = "list"), a single object (items = "dict", item the list of     *)
(* that one object) or missing with "items" (items = "absent").            *)
(***************************************************************************)
None == [set |-> FALSE, v |-> <<>>]

Some(s) == [set |-> TRUE, v |-> s]

get_service_key_unless_none(env) ==
  IF ~env.set THEN [exc |-> "ValueError", v |-> <<>>] ELSE [exc |-> "none", v |-> env.v]

\* lines 35-42: env is os.environ.get("KMA_SERVICE_KEY")
get_service_key(env) ==
  IF ~(env.set /\ env.v # <<>>) THEN [exc |-> "ValueError", v |-> <<>>]
  ELSE [exc |-> "none", v |-> env.v]

\* line 74: service_key or get_service_key()
api_key(service_key, env) ==
  IF service_key.set /\ service_key.v # <<>> THEN [exc |-> "none", v |-> service_key.v]
  ELSE get_service_key(env)

NoData ==
  [has_response |-> FALSE, result_code |-> None, has_body |-> FALSE,
   has_total |-> FALSE, total |-> 0, items |-> "absent", item |-> <<>>]

\* lines 80-108: what fetch_api does with the outcome of urlopen:
\* [exc, data], exc = "none" when it returns data
api_result(resp) ==
  IF resp.http = "HTTPError" THEN [exc |-> "Exception", data |-> NoData]
  ELSE IF resp.http = "URLError" THEN [exc |-> "Exception", data |-> NoData]
  ELSE IF resp.status # 200 THEN [exc |-> "Exception", data |-> NoData]
  ELSE IF ~resp.json THEN [exc |-> "JSONDecodeError", data |-> NoData]
  ELSE IF resp.doc.has_response /\ resp.doc.result_code # Some(<<"0", "0">>)
       THEN [exc |-> "Exception", data |-> NoData]
  ELSE [exc |-> "none", data |-> resp.doc]

(***************************************************************************)
(* The frame of a running call is the record `job`: pc is "waiting" while  *)
(* a request is outstanding, "returned" or "raised" at the end.            *)
(***************************************************************************)
NoJob ==
  [fn |-> "none", pc |-> "idle", exc |-> "none", url |-> "", num_rows |-> 0,
   service_key |-> None, params |-> <<>>, page |-> 0, total_pages |-> 0,
   all_items |-> <<>>, data |-> NoData, key |-> <<>>]

\* the frame once the call has ended with exception exc
raised(j, exc) == [j EXCEPT !.pc = "raised", !.exc = exc]

\* the frame once the call has returned j.data
returned(j) == [j EXCEPT !.pc = "returned"]

\* lines 74-81: fetch_api up to urlopen: the key lookup raises, or the
\* request goes out
requesting(j, key) ==
  IF key.exc # "none" THEN raised(j, key.exc)
  ELSE [j EXCEPT !.pc = "waiting", !.params = [serviceKey |-> key.v] @@ j.params]

\* lines 45-81: fetch_api(url, params, service_key) up to urlopen
fetch_api(url, params, service_key, env) ==
  requesting([NoJob EXCEPT !.fn = "fetch_api", !.url = url, !.page = 1, !.num_rows = 10,
                           !.service_key = service_key, !.params = params],
             api_key(service_key, env))

(***************************************************************************)
(* forecast.py: fetch_forecast(forecast_type, lat, lon, num_rows).         *)
(***************************************************************************)
BASE_URL == "https://apis.data.go.kr/1360000/VilageFcstInfoService_2.0"

ENDPOINTS ==
  [current |-> "/getUltraSrtNcst", ultrashort |-> "/getUltraSrtFcst",
   shortterm |-> "/getVilageFcst"]

forecast_params_swapped(num_rows, base, nx, ny) ==
  [numOfRows |-> Str(num_rows), pageNo |-> <<"1">>, dataType |-> "JSON",
   base_date |-> base.base_date, base_time |-> base.base_time,
   nx |-> Str(ny), ny |-> Str(nx)]

\* lines 138-146
forecast_params(num_rows, base, nx, ny) ==
  [numOfRows |-> Str(num_rows), pageNo |-> <<"1">>, dataType |-> "JSON",
   base_date |-> base.base_date, base_time |-> base.base_time,
   nx |-> Str(nx), ny |-> Str(ny)]

total_pages_rounded_down(total_count, num_rows) == total_count \div num_rows

\* line 163
total_pages(total_count, num_rows) == (total_count + num_rows - 1) \div num_rows

\* lines 130-149: grid is the outcome of latlon_to_grid, base of get_base_time
fetch_forecast(forecast_type, num_rows, grid, base, env) ==
  IF grid.raised # "none" THEN raised([NoJob EXCEPT !.fn = "fetch_forecast"], grid.raised)
  ELSE IF base.raised # "none"
       THEN raised([NoJob EXCEPT !.fn = "fetch_forecast"], base.raised)
  ELSE requesting([NoJob EXCEPT !.fn = "fetch_forecast",
                                !.url = BASE_URL \o ENDPOINTS[forecast_type],
                                !.num_rows = num_rows, !.page = 1,
                                !.params = forecast_params(num_rows, base, grid.nx, grid.ny)],
                  api_key(None, env))

\* line 154: int(body.get("totalCount", 0))
total_count(data) == IF data.has_total THEN data.total ELSE 0

\* lines 165-176: the loop for page in range(2, total_pages + 1), after page
\* j.page has been merged.  The next page is requested with
\* params["pageNo"] = str(page); after the last one line 175 stores all_items
\* in data, which raises KeyError for a first page without "items", and
\* line 179 then returns data as it is.
next_page(j, env) ==
  IF j.page < j.total_pages
  THEN requesting([j EXCEPT !.page = j.page + 1,
                            !.params = [j.params EXCEPT !.pageNo = Str(j.page + 1)]],
                  api_key(None, env))
  ELSE IF j.data.items = "absent" THEN returned(j)
  ELSE returned([j EXCEPT !.data = [j.data EXCEPT !.items = "list", !.item = j.all_items]])

\* lines 152-163: the first page has been returned as data
first_page(j, data, env) ==
  IF ~data.has_response \/ ~data.has_body THEN returned([j EXCEPT !.data = data])
  ELSE IF total_count(data) <= j.num_rows THEN returned([j EXCEPT !.data = data])
  ELSE next_page([j EXCEPT !.data = data, !.all_items = data.item,
                           !.total_pages = total_pages(total_count(data), j.num_rows)],
                 env)

\* lines 168-179: page j.page has been returned as page_data.  A page without
\* "response", "body" or "items" raises KeyError, and line 179 returns data.
\* all_items is the list of data when the first page held a list (line 162),
\* so extending it extends data's list too.
later_page(j, page_data, env) ==
  IF ~page_data.has_response \/ ~page_data.has_body \/ page_data.items = "absent"
  THEN returned(j)
  ELSE IF j.data.items = "list"
       THEN next_page([j EXCEPT !.all_items = j.all_items \o page_data.item,
                                !.data = [j.data EXCEPT !.item = j.all_items \o page_data.item]],
                      env)
  ELSE next_page([j EXCEPT !.all_items = j.all_items \o page_data.item], env)

\* lines 149-179: fetch_api has ended with api = [exc, data]
fetch_forecast_resumed(j, api, env) ==
  IF api.exc # "none" THEN raised(j, api.exc)
  ELSE IF j.page = 1 THEN first_page(j, api.data, env)
  ELSE later_page(j, api.data, env)

(***************************************************************************)
(* Callers.  A caller passes any two floats to either function; the        *)
(* script's main block converts a coordinate and converts the cell back.   *)
(***************************************************************************)
\* grid points per degree in the operational range
StepsPerDegree == 2

\* 32..43 N, 124..132 E
KoreaLats == {Dec(32 * StepsPerDegree + i, StepsPerDegree) : i \in 0..(11 * StepsPerDegree)}

KoreaLons == {Dec(124 * StepsPerDegree + i, StepsPerDegree) : i \in 0..(8 * StepsPerDegree)}

\* Seoul City Hall, 37.5665 N 126.9780 E (the nearest floats)
SeoulLat == F("fin", 38468, -10)

SeoulLon == F("fin", 65013, -9)

\* longitudes -180, -162, ..., 180 and the two 180 degrees from REF_LON
SweepLons == {FromInt(18 * i - 180) : i \in 0..20} \cup {FromInt(306), FromInt(-54)}

\* poles, latitudes beyond them and points west and south of the grid origin
EdgeLats == {FromInt(-100), FromInt(-90), FromInt(30), FromInt(90), FromInt(100)}

EdgeLons == {FromInt(120), REF_LON}

NonFinite == {NaN, Inf(1), Inf(-1)}

LatLonInputs ==
  (KoreaLats \X KoreaLons)
    \cup {<<SeoulLat, SeoulLon>>}
    \cup ({REF_LAT} \X SweepLons)
    \cup ((EdgeLats \cup {REF_LAT}) \X EdgeLons)
    \cup ((NonFinite \cup {REF_LAT}) \X (NonFinite \cup {REF_LON}))

\* ny of the cone's apex row, where diff_y = 0
ApexY == FAdd(ro, REF_Y)

GridInputs ==
  ({REF_X, FromInt(1), FromInt(30), FromInt(50), FromInt(60)} \cup NonFinite)
    \X ({ApexY, FromInt(1), FromInt(100), FromInt(127), FromInt(2000)} \cup NonFinite)

NoCall == [fn |-> "none", a |-> Zero, b |-> Zero]

NoFwd ==
  [distance |-> Zero, delta |-> Zero, wrapped1 |-> Zero, wrapped2 |-> Zero,
   theta |-> Zero, x |-> Zero, y |-> Zero, nx |-> 0, ny |-> 0, raised |-> "pending"]

NoInv ==
  [diff_x |-> Zero, diff_y |-> Zero, distance |-> Zero, theta |-> Zero,
   lat |-> Zero, lon |-> Zero, raised |-> "pending"]

NoStamp ==
  [fn |-> "none", forecast_type |-> "",
   base |-> [base_date |-> Unbound, base_time |-> Unbound, raised |-> "pending"],
   tm_fc |-> Unbound]

\* no function has been called and no request has been sent
Idle ==
  /\ pc = "idle" /\ call = NoCall /\ fwd = NoFwd /\ inv = NoInv
  /\ stamp = NoStamp /\ job = NoJob /\ sent = <<>> /\ got = <<>>

Init ==
  /\ Idle
  /\ environ = None
  /\ now = [y |-> 2026, mo |-> 11, d |-> 2, h |-> 14, mi |-> 50]

\* a caller runs latlon_to_grid(lat, lon)
CallLatlonToGrid ==
  /\ pc = "idle"
  /\ \E p \in LatLonInputs :
       /\ call' = [fn |-> "latlon_to_grid", a |-> p[1], b |-> p[2]]
       /\ fwd' = latlon_to_grid(p[1], p[2])
  /\ pc' = "forward"
  /\ UNCHANGED <<inv, now, stamp, environ, job, sent, got>>

\* main: lat_back, lon_back = grid_to_latlon(nx, ny) on the cell just returned
MainInverse ==
  /\ pc = "forward"
  /\ fwd.raised = "none"
  /\ inv' = grid_to_latlon(FromInt(fwd.nx), FromInt(fwd.ny))
  /\ pc' = "roundtrip"
  /\ UNCHANGED <<call, fwd, now, stamp, environ, job, sent, got>>

\* a caller runs grid_to_latlon(nx, ny)
CallGridToLatlon ==
  /\ pc = "idle"
  /\ \E p \in GridInputs :
       /\ call' = [fn |-> "grid_to_latlon", a |-> p[1], b |-> p[2]]
       /\ inv' = grid_to_latlon(p[1], p[2])
  /\ pc' = "inverse"
  /\ UNCHANGED <<fwd, now, stamp, environ, job, sent, got>>

Next == CallLatlonToGrid \/ MainInverse \/ CallGridToLatlon

Spec == Init /\ [][Next]_vars

(***************************************************************************)
(* The clock scripts: get_base_time and get_midterm_time read              *)
(* datetime.now(), the variable `now`; `stamp` is what the last call       *)
(* returned.  The clock is any minute of five days: the first and the     *)
(* last day of a year, 1 March of a leap year and of a common year, and    *)
(* one more day.                                                           *)
(***************************************************************************)
InitClock ==
  /\ Idle
  /\ environ = None
  /\ now \in {[y |-> dt[1], mo |-> dt[2], d |-> dt[3], h |-> h, mi |-> mi] :
                dt \in {<<2026, 1, 1>>, <<2024, 3, 1>>, <<2026, 3, 1>>, <<2026, 11, 2>>,
                        <<2026, 12, 31>>},
                h \in 0..23, mi \in 0..59}

\* a caller runs get_base_time(forecast_type)
CallGetBaseTime ==
  /\ stamp = NoStamp
  /\ \E forecast_type \in {"current", "ultrashort", "shortterm", "brief"} :
       stamp' = [NoStamp EXCEPT !.fn = "get_base_time", !.forecast_type = forecast_type,
                                !.base = get_base_time(forecast_type, now)]
  /\ UNCHANGED <<pc, call, fwd, inv, now, environ, job, sent, got>>

\* fetch_midterm_forecast runs get_midterm_time()
CallGetMidtermTime ==
  /\ stamp = NoStamp
  /\ stamp' = [NoStamp EXCEPT !.fn = "get_midterm_time", !.tm_fc = get_midterm_time(now)]
  /\ UNCHANGED <<pc, call, fwd, inv, now, environ, job, sent, got>>

NextClock == CallGetBaseTime \/ CallGetMidtermTime

SpecClock == InitClock /\ [][NextClock]_vars

(***************************************************************************)
(* The fetching scripts.  `environ` is KMA_SERVICE_KEY in os.environ,      *)
(* `job` the frame of the running call, `sent` the requests urlopen has    *)
(* sent (URL and query parameters) and `got` the outcomes of urlopen, both *)
(* in order.  The server is the environment: it answers a request with any *)
(* of Responses.                                                           *)
(***************************************************************************)
MaxTotal == 3

\* the items of one page: item i of page p is the number 10 * p + i
ItemsOf(page, k) == [i \in 1..k |-> 10 * page + i]

\* the rows a server holding t rows puts on a page
PageLen(page, rows, t) ==
  IF t <= (page - 1) * rows THEN 0
  ELSE IF t - (page - 1) * rows < rows THEN t - (page - 1) * rows
  ELSE rows

\* a document with a "response" member
Doc(result_code, has_body, has_total, total, items, item) ==
  [has_response |-> TRUE, result_code |-> result_code, has_body |-> has_body,
   has_total |-> has_total, total |-> total, items |-> items, item |-> item]

\* the JSON documents a server may send for a page: well-formed ones with a
\* list, a single item or no "items", one without totalCount, one without
\* "body", the NODATA_ERROR answer, one without resultCode, and {}
Docs(page, rows, totals) ==
  {Doc(Some(<<"0", "0">>), TRUE, TRUE, t, "list", ItemsOf(page, PageLen(page, rows, t))) :
     t \in totals}
    \cup {Doc(Some(<<"0", "0">>), TRUE, TRUE, t, "dict", ItemsOf(page, 1)) : t \in totals}
    \cup {Doc(Some(<<"0", "0">>), TRUE, TRUE, t, "absent", <<>>) : t \in totals}
    \cup {Doc(Some(<<"0", "0">>), TRUE, FALSE, 0, "list", ItemsOf(page, rows)),
          Doc(Some(<<"0", "0">>), FALSE, FALSE, 0, "absent", <<>>),
          Doc(Some(<<"0", "3">>), FALSE, FALSE, 0, "absent", <<>>),
          Doc(None, TRUE, TRUE, 0, "absent", <<>>),
          NoData}

\* the outcomes of urlopen: a 200 response with a JSON document or with a
\* body that is not JSON, a 204 response, HTTPError and URLError
Responses(page, rows, totals) ==
  {[http |-> "ok", status |-> 200, json |-> TRUE, doc |-> doc] : doc \in Docs(page, rows, totals)}
    \cup {[http |-> "ok", status |-> 200, json |-> FALSE, doc |-> NoData],
          [http |-> "ok", status |-> 204, json |-> TRUE, doc |-> NoData],
          [http |-> "HTTPError", status |-> 500, json |-> FALSE, doc |-> NoData],
          [http |-> "URLError", status |-> 0, json |-> FALSE, doc |-> NoData]}

InitForecast ==
  /\ Idle
  /\ environ \in {None, Some(<<>>), Some(<<"K", "1">>)}
  /\ now \in {[y |-> 2026, mo |-> 11, d |-> 2, h |-> 14, mi |-> 50],
              [y |-> 2026, mo |-> 1, d |-> 1, h |-> 0, mi |-> 30]}

\* main runs fetch_forecast(forecast_type, lat, lon, num_rows) up to its
\* first request, for Seoul City Hall, 38 N 120 E and the south pole
CallFetchForecast ==
  /\ job.pc = "idle"
  /\ \E forecast_type \in {"current", "ultrashort", "shortterm"},
        p \in {<<SeoulLat, SeoulLon>>, <<REF_LAT, FromInt(120)>>, <<FromInt(-90), REF_LON>>},
        num_rows \in {1, 2} :
       /\ call' = [fn |-> "latlon_to_grid", a |-> p[1], b |-> p[2]]
       /\ fwd' = latlon_to_grid(p[1], p[2])
       /\ stamp' = [NoStamp EXCEPT !.fn = "get_base_time", !.forecast_type = forecast_type,
                                   !.base = get_base_time(forecast_type, now)]
       /\ job' = fetch_forecast(forecast_type, num_rows, fwd', stamp'.base, environ)
  /\ pc' = "forward"
  /\ sent' = IF job'.pc = "waiting" THEN <<[url |-> job'.url, params |-> job'.params]>>
             ELSE <<>>
  /\ UNCHANGED <<inv, now, environ, got>>

\* a caller runs fetch_api(url, params, service_key) up to its request, with
\* the url and params of weather_warnings.py's fetch_warning_status()
CallFetchApi ==
  /\ job.pc = "idle"
  /\ \E service_key \in {None, Some(<<>>), Some(<<"A">>)} :
       job' = fetch_api("https://apis.data.go.kr/1360000/WthrWrnInfoService/getPwnStatus",
                        [numOfRows |-> <<"1", "0">>, pageNo |-> <<"1">>, dataType |-> "JSON"],
                        service_key, environ)
  /\ sent' = IF job'.pc = "waiting" THEN <<[url |-> job'.url, params |-> job'.params]>>
             ELSE <<>>
  /\ UNCHANGED <<pc, call, fwd, inv, now, stamp, environ, got>>

\* kma_api.py run as a script: key = get_service_key()
CallGetServiceKey ==
  /\ job.pc = "idle"
  /\ job' = IF get_service_key(environ).exc # "none"
            THEN raised([NoJob EXCEPT !.fn = "get_service_key"], get_service_key(environ).exc)
            ELSE returned([NoJob EXCEPT !.fn = "get_service_key",
                                        !.key = get_service_key(environ).v])
  /\ UNCHANGED <<pc, call, fwd, inv, now, stamp, environ, sent, got>>

\* urlopen ends, and the call runs on to its next request or to its end; the
\* server reports any totalCount on the first page and the same one after
Respond ==
  /\ job.pc = "waiting"
  /\ \E resp \in Responses(job.page, job.num_rows,
                           IF job.page = 1 THEN 0..MaxTotal ELSE {total_count(job.data)}) :
       /\ got' = Append(got, resp)
       /\ job' = IF job.fn = "fetch_forecast"
                 THEN fetch_forecast_resumed(job, api_result(resp), environ)
                 ELSE IF api_result(resp).exc # "none"
                      THEN raised(job, api_result(resp).exc)
                 ELSE returned([job EXCEPT !.data = api_result(resp).data])
  /\ sent' = IF job'.pc = "waiting"
             THEN Append(sent, [url |-> job'.url, params |-> job'.params])
             ELSE sent
  /\ UNCHANGED <<pc, call, fwd, inv, now, stamp, environ>>

NextForecast == CallFetchForecast \/ CallFetchApi \/ CallGetServiceKey \/ Respond

SpecForecast == InitForecast /\ [][NextForecast]_vars

(***************************************************************************)
(* Properties.                                                             *)
(***************************************************************************)
Forward == pc \in {"forward", "roundtrip"}

Inverse == pc \in {"inverse", "roundtrip"}

\* the call converts a coordinate of 32..43 N, 124..132 E
InOperationalRange ==
  /\ call.fn = "latlon_to_grid"
  /\ IsFin(call.a) /\ FLe(FromInt(32), call.a) /\ FLe(call.a, FromInt(43))
  /\ IsFin(call.b) /\ FLe(FromInt(124), call.b) /\ FLe(call.b, FromInt(132))

\* 0.05 degrees
Tolerance == Dec(5, 100)

\* C1: for every coordinate of the operational range latlon_to_grid returns
\* a cell, and grid_to_latlon of that cell returns a coordinate within 0.05
\* degrees of the original in latitude and in longitude.
C1_RoundTrip ==
  /\ (Forward /\ InOperationalRange) => fwd.raised = "none"
  /\ (pc = "roundtrip" /\ InOperationalRange) =>
       /\ inv.raised = "none"
       /\ FLe(FAbs(FSub(inv.lat, call.a)), Tolerance)
       /\ FLe(FAbs(FSub(inv.lon, call.b)), Tolerance)

\* a round trip in the range that moved the coordinate by more than 0.02 degrees
C1_Witness ==
  /\ pc = "roundtrip" /\ InOperationalRange /\ inv.raised = "none"
  /\ FGt(FAbs(FSub(inv.lon, call.b)), Dec(2, 100))

SeoulCall == call = [fn |-> "latlon_to_grid", a |-> SeoulLat, b |-> SeoulLon]

\* C2: latlon_to_grid(37.5665, 126.9780) returns exactly (60, 127).
C2_SeoulCityHall ==
  (Forward /\ SeoulCall) => (fwd.raised = "none" /\ fwd.nx = 60 /\ fwd.ny = 127)

C2_Witness == pc = "forward" /\ SeoulCall /\ fwd.raised = "none"

\* C3: whenever latlon_to_grid returns, nx = floor(X + 0.5) and
\* ny = floor(Y + 0.5) for the unrounded grid positions X and Y, whatever
\* their sign.
C3_FloorOfHalfUp ==
  (Forward /\ fwd.raised = "none") =>
    /\ fwd.nx = Floor(FAdd(fwd.x, Half))
    /\ fwd.ny = Floor(FAdd(fwd.y, Half))

\* the call reached the normalisation of a longitude of [-180, 180]
NormalisedBoundedLon ==
  /\ Forward
  /\ IsFin(call.b) /\ FLe(FromInt(-180), call.b) /\ FLe(call.b, FromInt(180))
  /\ ~IsExc(fwd.distance)

\* the number of the two wrap statements that changed theta_rad
Wraps ==
  (IF fwd.wrapped1 # fwd.delta THEN 1 ELSE 0) + (IF fwd.wrapped2 # fwd.wrapped1 THEN 1 ELSE 0)

\* C4 (as stated): for a longitude of [-180, 180] the normalised longitude
\* delta lies in the half-open interval (-pi, pi], after at most one wrap.
C4_HalfOpenInterval ==
  NormalisedBoundedLon =>
    /\ FGt(fwd.wrapped2, FNeg(math_pi)) /\ FLe(fwd.wrapped2, math_pi)
    /\ Wraps <= 1

\* C4 (amended): for a longitude of [-180, 180] the normalised longitude
\* delta lies in the closed interval [-pi, pi], after at most one wrap.
C4_ClosedInterval ==
  NormalisedBoundedLon =>
    /\ FGe(fwd.wrapped2, FNeg(math_pi)) /\ FLe(fwd.wrapped2, math_pi)
    /\ Wraps <= 1

\* a longitude of the range whose delta was wrapped
C4_Witness == NormalisedBoundedLon /\ Wraps = 1

\* the query longitude is 180 degrees east or west of REF_LON
AntiMeridianCall ==
  /\ Forward /\ call.fn = "latlon_to_grid"
  /\ call.b \in {FromInt(306), FromInt(-54)}
  /\ ~IsExc(fwd.distance)

\* C5: for a longitude exactly 180 degrees east or west of the reference
\* longitude, the theta passed to sin and cos lies in (-pi, pi].
C5_ThetaAtAntiMeridian ==
  AntiMeridianCall =>
    /\ IsFin(fwd.theta)
    /\ FGt(fwd.theta, FNeg(math_pi)) /\ FLe(fwd.theta, math_pi)

\* 180 degrees east: the delta is exactly pi and is left unwrapped
C5_Witness == AntiMeridianCall /\ call.b = FromInt(306) /\ fwd.wrapped2 = math_pi

\* C6: latlon_to_grid returns a pair of integers for every finite lat and
\* lon, and grid_to_latlon returns a pair of numbers for every finite nx and
\* ny; neither raises.
C6_NoErrorOnFiniteInput ==
  /\ (Forward /\ IsFin(call.a) /\ IsFin(call.b)) => fwd.raised = "none"
  /\ (pc = "inverse" /\ IsFin(call.a) /\ IsFin(call.b)) => inv.raised = "none"

\* C7: with a nan or infinite argument either function completes without
\* raising and its result is nan or infinite.
C7_NonFinitePropagates ==
  /\ (pc = "forward" /\ (~IsFin(call.a) \/ ~IsFin(call.b))) => fwd.raised = "none"
  /\ (pc = "inverse" /\ (~IsFin(call.a) \/ ~IsFin(call.b))) =>
       (inv.raised = "none" /\ (~IsFin(inv.lat) \/ ~IsFin(inv.lon)))

\* C8: in grid_to_latlon the distance is zero only when diff_x and diff_y
\* are both zero, and the call then returns a nan or infinite latitude
\* without raising.
C8_ZeroDistanceIsUndefinedLatitude ==
  (Inverse /\ inv.distance = Zero) =>
    /\ inv.diff_x = Zero /\ inv.diff_y = Zero
    /\ inv.raised = "none"
    /\ inv.lat.k \in {"nan", "inf"}

\* C9: for every (nx, ny) grid_to_latlon uses theta = 0 when diff_x = 0,
\* whatever diff_y is, and then returns exactly the reference longitude;
\* theta = +-pi/2 with the sign of diff_x when only diff_y = 0; and
\* theta = atan2(diff_x, diff_y) otherwise.
C9_ThetaCases ==
  Inverse =>
    /\ inv.diff_x = Zero => (inv.theta = Zero /\ inv.raised = "none" /\ inv.lon = REF_LON)
    /\ (inv.diff_x # Zero /\ inv.diff_y = Zero) =>
         inv.theta = (IF FGe(inv.diff_x, Zero) THEN HalfPi ELSE FNeg(HalfPi))
    /\ (inv.diff_x # Zero /\ inv.diff_y # Zero) =>
         inv.theta = math_atan2(inv.diff_x, inv.diff_y)

(***************************************************************************)
(* Properties of the fetching scripts.                                     *)
(***************************************************************************)
ForecastCall == job.fn = "fetch_forecast"

\* response i was returned by fetch_api to its caller
Accepted(i) == api_result(got[i]).exc = "none"

\* response i is a page fetch_forecast can read items from
Readable(i) ==
  /\ Accepted(i)
  /\ got[i].doc.has_response /\ got[i].doc.has_body /\ got[i].doc.items # "absent"

\* the first page reported more rows than one page holds
MorePages ==
  /\ ForecastCall /\ got # <<>> /\ Accepted(1)
  /\ got[1].doc.has_response /\ got[1].doc.has_body /\ got[1].doc.has_total
  /\ got[1].doc.total > job.num_rows

\* ceil(totalCount / num_rows) of the first page
LastPage ==
  IF MorePages
  THEN CHOOSE p \in 1..got[1].doc.total :
         (p - 1) * job.num_rows < got[1].doc.total /\ got[1].doc.total <= p * job.num_rows
  ELSE 1

\* C11: fetch_forecast requests page 1 first and reads totalCount from its
\* response; when totalCount <= num_rows it sends no further request,
\* otherwise it requests pages 2..ceil(totalCount / num_rows) in increasing
\* order, one at a time and each once, and sends nothing after a failure.
C11_PagesInOrder ==
  ForecastCall =>
    /\ \A i \in 1..Len(sent) : IntOfStr(sent[i].params.pageNo) = [exc |-> "none", v |-> i]
    /\ Len(sent) = Len(got) + (IF job.pc = "waiting" THEN 1 ELSE 0)
    /\ Len(got) = 0 => Len(sent) <= 1
    /\ Len(got) > 0 => Len(sent) <= LastPage
    /\ \A i \in 1..Len(got) : ~Accepted(i) => (Len(sent) = i /\ job.pc = "raised")
    /\ (job.pc = "returned" /\ \A i \in 1..Len(got) : Readable(i)) => Len(sent) = LastPage

\* a call that fetched three pages and returned
C11_Witness ==
  /\ ForecastCall /\ job.pc = "returned" /\ Len(sent) = 3 /\ LastPage = 3
  /\ \A i \in 1..3 : Readable(i)

RECURSIVE PagesConcat(_)
\* the items of responses 1..n, in page order
PagesConcat(n) == IF n = 0 THEN <<>> ELSE PagesConcat(n - 1) \o got[n].doc.item

\* C12: whenever fetch_forecast returns normally for a first response whose
\* totalCount exceeds num_rows, the returned item list is the concatenation,
\* in page order, of the items of every page 1..ceil(totalCount / num_rows).
C12_AllPagesMerged ==
  (MorePages /\ job.pc = "returned") =>
    /\ Len(got) = LastPage
    /\ \A i \in 1..Len(got) : Readable(i)
    /\ job.data.items = "list"
    /\ job.data.item = PagesConcat(LastPage)

\* the request without its page number
Unpaged(request) == [request EXCEPT !.params = [request.params EXCEPT !.pageNo = <<>>]]

\* C13: every request of one fetch_forecast call carries nx and ny equal to
\* the decimal strings of latlon_to_grid(lat, lon) and the same base_date,
\* base_time, numOfRows and dataType; only pageNo differs between requests.
C13_OnlyPageNoChanges ==
  ForecastCall =>
    \A i \in 1..Len(sent) :
      /\ IntOfStr(sent[i].params.nx) = [exc |-> "none", v |-> fwd.nx]
      /\ IntOfStr(sent[i].params.ny) = [exc |-> "none", v |-> fwd.ny]
      /\ sent[i].params.base_date = stamp.base.base_date
      /\ sent[i].params.base_time = stamp.base.base_time
      /\ IntOfStr(sent[i].params.numOfRows) = [exc |-> "none", v |-> job.num_rows]
      /\ sent[i].params.dataType = "JSON"
      /\ Unpaged(sent[i]) = Unpaged(sent[1])

\* three requests for a cell west of the grid origin
C13_Witness ==
  /\ ForecastCall /\ Len(sent) = 3 /\ fwd.raised = "none" /\ fwd.nx < 0
  /\ sent[3].params.nx = <<"-", "5", "8">>

ApiCall == job.fn = "fetch_api"

\* the outcome of urlopen is HTTP status 200 with result code "00" in
\* response.header
Validated(resp) ==
  /\ resp.http = "ok" /\ resp.status = 200 /\ resp.json
  /\ resp.doc.has_response /\ resp.doc.result_code = Some(<<"0", "0">>)

\* C14: fetch_api returns the parsed response only when the HTTP status is
\* 200 and the result code in response.header is "00"; every other outcome
\* raises and returns no data.
C14_ReturnsOnlyValidated ==
  (ApiCall /\ got # <<>>) =>
    IF Validated(got[1])
    THEN job.pc = "returned" /\ job.data = got[1].doc
    ELSE job.pc = "raised" /\ job.data = NoData

Unset(env) == ~env.set \/ env.v = <<>>

\* C15: get_service_key raises ValueError whenever KMA_SERVICE_KEY is unset
\* or empty and otherwise returns its value unchanged; fetch_api called
\* without service_key while the variable is unset raises before any request.
C15_ServiceKey ==
  /\ job.fn = "get_service_key" =>
       IF Unset(environ)
       THEN job.pc = "raised" /\ job.exc = "ValueError"
       ELSE job.pc = "returned" /\ job.key = environ.v
  /\ (ApiCall /\ job.service_key = None /\ ~environ.set) =>
       (job.pc = "raised" /\ job.exc = "ValueError" /\ sent = <<>>)
  /\ (ForecastCall /\ fwd.raised = "none" /\ ~environ.set) =>
       (job.pc = "raised" /\ job.exc = "ValueError" /\ sent = <<>>)

\* get_service_key found the variable set but empty
C15_Witness ==
  job.fn = "get_service_key" /\ environ = Some(<<>>) /\ job.pc = "raised"

(***************************************************************************)
(* Properties of the clock scripts.                                        *)
(***************************************************************************)
RECURSIVE DaysBeforeYear(_)
DaysBeforeYear(y) ==
  IF y <= 2020 THEN 0
  ELSE DaysBeforeYear(y - 1) + 337 + DaysInMonth(y - 1, 2)

RECURSIVE DaysBeforeMonth(_, _)
DaysBeforeMonth(y, mo) ==
  IF mo <= 1 THEN 0 ELSE DaysBeforeMonth(y, mo - 1) + DaysInMonth(y, mo - 1)

\* minutes from the start of 2020 to y-mo-d h:mi
Minutes(y, mo, d, h, mi) ==
  ((DaysBeforeYear(y) + DaysBeforeMonth(y, mo) + (d - 1)) * 24 + h) * 60 + mi

NowMinutes == Minutes(now.y, now.mo, now.d, now.h, now.mi)

\* the number written in characters a..b of s
Field(s, a, b) == IntOfStr(SubSeq(s, a, b)).v

IsCalendarDate(s) ==
  /\ Len(s) = 8 /\ IsDigits(s)
  /\ Field(s, 5, 6) \in 1..12
  /\ Field(s, 7, 8) \in 1..DaysInMonth(Field(s, 1, 4), Field(s, 5, 6))

IsClockTime(s) ==
  Len(s) = 4 /\ IsDigits(s) /\ Field(s, 1, 2) \in 0..23 /\ Field(s, 3, 4) \in 0..59

\* the minute a YYYYMMDD date and an HHMM time name
MinutesOf(date, time) ==
  Minutes(Field(date, 1, 4), Field(date, 5, 6), Field(date, 7, 8),
          Field(time, 1, 2), Field(time, 3, 4))

Today == <<now.y, now.mo, now.d>>

DateOf(s) == <<Field(s, 1, 4), Field(s, 5, 6), Field(s, 7, 8)>>

BaseTimeCall(forecast_type) ==
  stamp.fn = "get_base_time" /\ stamp.forecast_type = forecast_type

\* C16: get_base_time("shortterm") assigns base_time on every path: it
\* returns the latest of the eight base times 0200, 0500, ..., 2300 whose
\* release moment (base time + 10 minutes) is not after now, with today's
\* date, and before 02:10 it returns 2300 with yesterday's date.
C16_ShorttermLatestRelease ==
  BaseTimeCall("shortterm") =>
    /\ stamp.base.raised = "none"
    /\ IsCalendarDate(stamp.base.base_date) /\ IsClockTime(stamp.base.base_time)
    /\ Field(stamp.base.base_time, 1, 2) \in {2, 5, 8, 11, 14, 17, 20, 23}
    /\ Field(stamp.base.base_time, 3, 4) = 0
    /\ MinutesOf(stamp.base.base_date, stamp.base.base_time) + 10 <= NowMinutes
    /\ NowMinutes < MinutesOf(stamp.base.base_date, stamp.base.base_time) + 10 + 180
    /\ IF now.h * 60 + now.mi < 130
       THEN Field(stamp.base.base_time, 1, 2) = 23 /\ DateOf(stamp.base.base_date) # Today
       ELSE DateOf(stamp.base.base_date) = Today

\* a call between midnight and 02:10 of 1 January
C16_Witness ==
  /\ BaseTimeCall("shortterm") /\ now.h = 2 /\ now.mi = 9
  /\ stamp.base.base_date = <<"2", "0", "2", "5", "1", "2", "3", "1">>
  /\ stamp.base.base_time = <<"2", "3", "0", "0">>

\* the hour now falls in, minus one hour when minute < release
HourStart(release) == NowMinutes - now.mi - (IF now.mi >= release THEN 0 ELSE 60)

\* C17: get_base_time("current") returns HH00 and get_base_time("ultrashort")
\* HH30, where HH is the current hour when the minute has reached the
\* release minute (40, 45) and the previous hour otherwise; base_date is the
\* date of that hour, yesterday's across midnight.
C17_HourlyBaseTime ==
  /\ BaseTimeCall("current") =>
       /\ stamp.base.raised = "none"
       /\ IsCalendarDate(stamp.base.base_date) /\ IsClockTime(stamp.base.base_time)
       /\ MinutesOf(stamp.base.base_date, stamp.base.base_time) = HourStart(40)
  /\ BaseTimeCall("ultrashort") =>
       /\ stamp.base.raised = "none"
       /\ IsCalendarDate(stamp.base.base_date) /\ IsClockTime(stamp.base.base_time)
       /\ MinutesOf(stamp.base.base_date, stamp.base.base_time) = HourStart(45) + 30

\* a call at 00:44 of 1 March of a leap year
C17_Witness ==
  /\ BaseTimeCall("ultrashort") /\ now.h = 0 /\ now.mi = 44
  /\ stamp.base.base_date = <<"2", "0", "2", "4", "0", "2", "2", "9">>
  /\ stamp.base.base_time = <<"2", "3", "3", "0">>

\* C18: get_midterm_time returns the tmFc of the most recent release (06:00
\* or 18:00) not after now: yesterday's 1800 when the hour is below 6,
\* today's 0600 for the hours 6..17 and today's 1800 from 18 on.
C18_MidtermLatestRelease ==
  stamp.fn = "get_midterm_time" =>
    /\ Len(stamp.tm_fc) = 12
    /\ IsCalendarDate(SubSeq(stamp.tm_fc, 1, 8)) /\ IsClockTime(SubSeq(stamp.tm_fc, 9, 12))
    /\ Field(stamp.tm_fc, 9, 12) \in {600, 1800}
    /\ MinutesOf(SubSeq(stamp.tm_fc, 1, 8), SubSeq(stamp.tm_fc, 9, 12)) <= NowMinutes
    /\ NowMinutes < MinutesOf(SubSeq(stamp.tm_fc, 1, 8), SubSeq(stamp.tm_fc, 9, 12)) + 720
    /\ IF now.h < 6
       THEN Field(stamp.tm_fc, 9, 12) = 1800 /\ DateOf(SubSeq(stamp.tm_fc, 1, 8)) # Today
       ELSE /\ DateOf(SubSeq(stamp.tm_fc, 1, 8)) = Today
            /\ Field(stamp.tm_fc, 9, 12) = (IF now.h < 18 THEN 600 ELSE 1800)

\* a call at 05:59 of 1 January
C18_Witness ==
  /\ stamp.fn = "get_midterm_time" /\ now.h = 5 /\ now.mi = 59
  /\ stamp.tm_fc = <<"2", "0", "2", "5", "1", "2", "3", "1", "1", "8", "0", "0">>

====
